---- MODULE Spec2Model ----
(***************************************************************************)
(* Grover search of quantum_search.py: the circuit that grover_oracle,     *)
(* grover_diffusion and build_grover_circuit put together, its ideal       *)
(* state-vector simulation, run_grover_once and run_grover_repeated.       *)
(*                                                                         *)
(* A state vector is a record [amp, k]: the amplitude of basis state i is  *)
(* amp[i] / sqrt(2)^k.  Every gate of the circuit (H, X, Z, MCX) has a     *)
(* real matrix with entries in {0, 1, -1} / sqrt(2)^j, so integers amp and *)
(* the exponent k represent every reachable amplitude exactly.  Qubit q is *)
(* bit q of the basis-state index (qubit 0 is the least significant bit),  *)
(* and a measured key shows classical bit n-1 first and bit 0 last.        *)
(*                                                                         *)
(* Beside it: the floor-based iteration count of benchmark.py and          *)
(* quantum_search_sim.py, the linear searches of classical_search.py,      *)
(* benchmark.py and linear_search.py, load_and_find_target of              *)
(* dataset_adapters.py, and the repeats of run_scalability_compare_ui      *)
(* (main.py) with the binary search of binary_search.py.                   *)
(***************************************************************************)
EXTENDS Integers, Sequences, FiniteSets, TLC

\* ------------------------------------------------------------------ bounds
MaxQubits == 3      \* n_qubits of a single run
MaxShots == 2       \* shots of a single run
MaxAnyQubits == 2   \* n_qubits where an operator is applied to any vector
MaxRepeats == 3     \* repeats of run_grover_repeated
MaxRepQubits == 1   \* n_qubits of the repeated runs
MaxRepShots == 2    \* shots of the repeated runs

AmpVals == {-1, 0, 1}   \* amplitudes of the arbitrary input vectors
TimeVals == {1, 2}      \* readings of perf_counter differences

\* ----------------------------------------------------------------- helpers
Dim(n) == 2 ^ n

Bit(i, q) == (i \div (2 ^ q)) % 2

FlipBit(i, q) == IF Bit(i, q) = 0 THEN i + 2 ^ q ELSE i - 2 ^ q

Max2(a, b) == IF a >= b THEN a ELSE b

RECURSIVE SumTo(_, _)
\* f[0] + ... + f[m]
SumTo(f, m) == IF m < 0 THEN 0 ELSE f[m] + SumTo(f, m - 1)

RECURSIVE Bits(_)
\* binary digits of v >= 0, most significant first ("0" for 0)
Bits(v) == IF v < 2 THEN <<IF v = 0 THEN "0" ELSE "1">>
           ELSE Bits(v \div 2) \o <<IF v % 2 = 0 THEN "0" ELSE "1">>

RECURSIVE ZeroPad(_, _)
ZeroPad(s, w) == IF Len(s) >= w THEN s ELSE ZeroPad(<<"0">> \o s, w)

\* format(target, f'0{n}b'): sign first, zero padded to width n, never cut
FormatBin(t, n) == IF t < 0 THEN <<"-">> \o ZeroPad(Bits(-t), n - 1)
                   ELSE ZeroPad(Bits(t), n)

\* ------------------------------------------------------------------- gates
Gate(g, q, c) == [g |-> g, q |-> q, c |-> c]

\* qc.h(range(n)), qc.x(range(n)), qc.measure(range(n), range(n))
Layer(g, n) == [j \in 1..n |-> Gate(g, j - 1, {})]

\* a qubit argument the circuit accepts (a Python list index)
ValidQubit(q, n) == q < n /\ q >= -n

\* the block without the Hadamards around the MCX
PhaseFlip_NoH(n) ==
    IF n = 1 THEN <<Gate("z", 0, {})>> ELSE <<Gate("mcx", n - 1, 0..(n - 2))>>

\* lines 32-37 and 45-50: the phase flip of the all-ones state
PhaseFlip(n) ==
    IF n = 1 THEN <<Gate("z", 0, {})>>
    ELSE <<Gate("h", n - 1, {}), Gate("mcx", n - 1, 0..(n - 2)), Gate("h", n - 1, {})>>

RECURSIVE XGatesFrom(_, _)
\* the loop "for i, b in enumerate(tbin): if b == '0': qc.x(i)", from position i
XGatesFrom(tbin, i) ==
    IF i > Len(tbin) THEN <<>>
    ELSE (IF tbin[i] = "0" THEN <<Gate("x", i - 1, {})>> ELSE <<>>)
         \o XGatesFrom(tbin, i + 1)

XGates(tbin) == XGatesFrom(tbin, 1)

\* grover_oracle without the X gates after the phase flip
OracleCalls_NoUndo(target, n) == XGates(FormatBin(target, n)) \o PhaseFlip(n)

\* the gates grover_oracle asks the circuit to add, in order
OracleCalls(target, n) ==
    XGates(FormatBin(target, n)) \o PhaseFlip(n) \o XGates(FormatBin(target, n))

\* the position of the first gate the circuit refuses (CircuitError), 0 if none
FirstRefused(gs, n) ==
    IF \E j \in 1..Len(gs) : ~ValidQubit(gs[j].q, n)
    THEN CHOOSE j \in 1..Len(gs) :
            /\ ~ValidQubit(gs[j].q, n)
            /\ \A m \in 1..(j - 1) : ValidQubit(gs[m].q, n)
    ELSE 0

OracleRaises(target, n) == FirstRefused(OracleCalls(target, n), n) # 0

\* the gates grover_oracle has added when it returns or raises
grover_oracle(target, n) ==
    IF OracleRaises(target, n)
    THEN SubSeq(OracleCalls(target, n), 1, FirstRefused(OracleCalls(target, n), n) - 1)
    ELSE OracleCalls(target, n)

\* grover_diffusion without its X layers
grover_diffusion_NoX(n) == Layer("h", n) \o PhaseFlip(n) \o Layer("h", n)

\* grover_diffusion without its closing Hadamard layer
grover_diffusion_NoLastH(n) ==
    Layer("h", n) \o Layer("x", n) \o PhaseFlip(n) \o Layer("x", n)

grover_diffusion(n) ==
    Layer("h", n) \o Layer("x", n) \o PhaseFlip(n) \o Layer("x", n) \o Layer("h", n)

RECURSIVE Rounds(_, _, _)
\* lines 66-68: r rounds, each the oracle and then the diffusion
Rounds(t, n, r) ==
    IF r = 0 THEN <<>>
    ELSE Rounds(t, n, r - 1) \o grover_oracle(t, n) \o grover_diffusion(n)

\* a circuit whose opening Hadamard layer misses the last qubit
build_grover_circuit_ShortH(t, n, it) ==
    Layer("h", n - 1) \o Rounds(t, n, it) \o Layer("measure", n)

\* the circuit build_grover_circuit returns when no gate is refused
build_grover_circuit(t, n, it) ==
    Layer("h", n) \o Rounds(t, n, it) \o Layer("measure", n)

\* -------------------------------------------------- state-vector simulation
AllEven(amp) == \A i \in DOMAIN amp : amp[i] % 2 = 0

RECURSIVE Tabulate(_, _)
\* the function f on 0..m, every value computed once
Tabulate(f, m) == IF m = 0 THEN (0 :> f[0]) ELSE (m :> f[m]) @@ Tabulate(f, m - 1)

Stored(sv) == [amp |-> Tabulate(sv.amp, Cardinality(DOMAIN sv.amp) - 1), k |-> sv.k]

RECURSIVE Reduce(_)
\* the same amplitudes with the smallest exponent
Reduce(sv) ==
    IF sv.k >= 2 /\ AllEven(sv.amp)
    THEN Reduce(Stored([amp |-> [i \in DOMAIN sv.amp |-> sv.amp[i] \div 2], k |-> sv.k - 2]))
    ELSE sv

\* a Hadamard without the minus sign of its |1> row
ApplyH_Unsigned(sv, q) ==
    [amp |-> [i \in DOMAIN sv.amp |-> sv.amp[i] + sv.amp[FlipBit(i, q)]],
     k |-> sv.k + 1]

ApplyH(sv, q) ==
    [amp |-> [i \in DOMAIN sv.amp |->
                 IF Bit(i, q) = 0 THEN sv.amp[i] + sv.amp[FlipBit(i, q)]
                 ELSE sv.amp[FlipBit(i, q)] - sv.amp[i]],
     k |-> sv.k + 1]

ApplyX(sv, q) ==
    [amp |-> [i \in DOMAIN sv.amp |-> sv.amp[FlipBit(i, q)]], k |-> sv.k]

ApplyZ(sv, q) ==
    [amp |-> [i \in DOMAIN sv.amp |-> IF Bit(i, q) = 1 THEN -sv.amp[i] ELSE sv.amp[i]],
     k |-> sv.k]

\* an MCX that copies the partner amplitude one way instead of swapping
ApplyMCX_Copy(sv, q, c) ==
    [amp |-> [i \in DOMAIN sv.amp |->
                 IF (\A b \in c : Bit(i, b) = 1) /\ Bit(i, q) = 1
                 THEN sv.amp[FlipBit(i, q)] ELSE sv.amp[i]],
     k |-> sv.k]

ApplyMCX(sv, q, c) ==
    [amp |-> [i \in DOMAIN sv.amp |->
                 IF \A b \in c : Bit(i, b) = 1 THEN sv.amp[FlipBit(i, q)] ELSE sv.amp[i]],
     k |-> sv.k]

ApplyGate(sv, gate) ==
    Reduce(Stored(CASE gate.g = "h" -> ApplyH(sv, gate.q)
                    [] gate.g = "x" -> ApplyX(sv, gate.q)
                    [] gate.g = "z" -> ApplyZ(sv, gate.q)
                    [] gate.g = "mcx" -> ApplyMCX(sv, gate.q, gate.c)
                    [] OTHER -> sv))

RECURSIVE RunGates(_, _)
\* the state after the gates gs, applied in order to the state sv
RunGates(sv, gs) ==
    IF Len(gs) = 0 THEN sv
    ELSE LET before == RunGates(sv, SubSeq(gs, 1, Len(gs) - 1))
         IN IF before.k >= 0 THEN ApplyGate(before, gs[Len(gs)]) ELSE before

\* |0...0>, the state every circuit starts in
ZeroState(n) == [amp |-> [i \in 0..(Dim(n) - 1) |-> IF i = 0 THEN 1 ELSE 0], k |-> 0]

\* sum of squared magnitudes, times 2^k
NormSq(sv) ==
    SumTo([i \in DOMAIN sv.amp |-> sv.amp[i] * sv.amp[i]], Cardinality(DOMAIN sv.amp) - 1)

\* the key get_counts gives basis state i: classical bit n-1 first, bit 0 last
\* (qc.measure(range(n), range(n)) copies qubit q to classical bit q)
MeasuredKey(i, n) == [j \in 1..n |-> IF Bit(i, n - j) = 1 THEN "1" ELSE "0"]

\* counts.get(key, 0)
CountsGet(cnt, key) == IF key \in DOMAIN cnt THEN cnt[key] ELSE 0

\* a shot that sets the count of its key instead of adding to it
CountsAdd_Overwrite(cnt, key) ==
    IF key \in DOMAIN cnt THEN [cnt EXCEPT ![key] = 1] ELSE cnt @@ (key :> 1)

\* one more shot measured as key
CountsAdd(cnt, key) ==
    IF key \in DOMAIN cnt THEN [cnt EXCEPT ![key] = @ + 1] ELSE cnt @@ (key :> 1)

\* --------------------------------------------- compute_optimal_iterations
\* Floating point is modelled in fixed point: sqrt(N) in units of 10^-3,
\* asin(x)/x and theta in units of 10^-6, the ratio in units of 10^-3.
RECURSIVE Newton(_, _)
Newton(m, x) == LET y == (x + m \div x) \div 2 IN IF y >= x THEN x ELSE Newton(m, y)

\* floor(sqrt(m)), m >= 1
ISqrt(m) == Newton(m, m)

\* np.sqrt(N), units of 10^-3
SqrtFix(N) == ISqrt(N * 1000000)

RECURSIVE AsinSeries(_, _, _)
\* sum of the terms of asin(x)/x = 1 + x^2/6 + 3x^4/40 + ... from term j on,
\* where x^2 = 1/N and t is term j in units of 10^-6
AsinSeries(N, j, t) ==
    IF t = 0 \/ j > 20 THEN 0
    ELSE t + AsinSeries(N, j + 1,
                        (t * (2 * j + 1) * (2 * j + 1)) \div ((2 * j + 2) * (2 * j + 3) * N))

\* asin(1.0 / np.sqrt(N)), units of 10^-6
ThetaFix(N) == (AsinSeries(N, 0, 1000000) * 1000) \div SqrtFix(N)

\* pi / 4, units of 10^-6
PiOver4Fix == 785398

\* pi / 2 in place of pi / 4
RatioFix_HalfPi(N) == (2 * PiOver4Fix * 1000) \div ThetaFix(N)

\* (pi / 4) / theta, units of 10^-3
RatioFix(N) == (PiOver4Fix * 1000) \div ThetaFix(N)

\* int(round(r)) of a ratio r in units of 10^-3.  The fixed point resolves r to
\* 2 units; a ratio that close to a half is the exact tie of N = 4
\* (asin(1/2) = pi/6, ratio 3/2), which double arithmetic evaluates to
\* 1.4999999999999998 and rounds down.
RoundFix(r) == IF r % 1000 > 502 THEN r \div 1000 + 1 ELSE r \div 1000

compute_optimal_iterations(n) ==
    IF Dim(n) <= 1 THEN 1
    ELSE IF ThetaFix(Dim(n)) <= 0 THEN 1
    ELSE Max2(1, RoundFix(RatioFix(Dim(n))))

\* ------------------------------------------------------------------- state
VARIABLES
    n_qubits, target, shots, warmup,   \* the arguments of the run
    has_qiskit,                        \* _HAS_QISKIT
    pc,                                \* where the run is
    iterations,                        \* run_grover_once: iterations
    qc,                                \* the QuantumCircuit: its gates in order
    calls,                             \* the build steps taken so far, in order
    round,                             \* build_grover_circuit: rounds completed
    sv, ip,                            \* the simulator: state vector, next gate
    counts, drawn,                     \* the histogram and the shots drawn
    transpile_time, elapsed_exec,
    result, err,                       \* what the caller gets
    vin,                               \* the state vector an operator is applied to
    repeats, records,                  \* run_grover_repeated: repeats, records
    policy,                            \* the rule that gave the iteration count
    amp_marked, amp_rest,              \* amplitudes of the marked state, of any other
    routine,                           \* the classical search routine that runs
    dataset,                           \* the list it searches (target is the value sought)
    steps, cursor,                     \* its step counter, the position of its loop
    idx_c, idx_py,                     \* linear_search_once: idx_c, idx_py
    file_kind, rows,                   \* load_and_find_target: the file at path
    max_rows, needle,                  \* its arguments max_rows and target
    target_value, target_index, matched_row,
    target_mode, include_sort,         \* run_scalability_compare_ui: the choices made
    sorted_dataset, lo, hi             \* binary_search_once: its list, lo and hi

vars == <<n_qubits, target, shots, warmup, has_qiskit, pc, iterations, qc, calls,
          round, sv, ip, counts, drawn, transpile_time, elapsed_exec, result, err,
          vin, repeats, records, policy, amp_marked, amp_rest,
          routine, dataset, steps, cursor, idx_c, idx_py,
          file_kind, rows, max_rows, needle, target_value, target_index, matched_row,
          target_mode, include_sort, sorted_dataset, lo, hi>>

\* the state of the classical searches
classical == <<routine, dataset, steps, cursor, idx_c, idx_py>>

ClassicalIdle ==
    /\ routine = "none"
    /\ dataset = <<>>
    /\ steps = 0
    /\ cursor = 0
    /\ idx_c = -1
    /\ idx_py = -1

\* None, where an index or an encoded value is expected
NoneInt == -1

\* None, where a record is expected
NoneRow == <<"None">>

\* the state of load_and_find_target
adapter == <<file_kind, rows, max_rows, needle, target_value, target_index, matched_row>>

AdapterIdle ==
    /\ file_kind = "none"
    /\ rows = <<>>
    /\ max_rows = 0
    /\ needle = <<>>
    /\ target_value = NoneInt
    /\ target_index = NoneInt
    /\ matched_row = NoneRow

\* the state of the binary search and of the comparison that calls it
binary == <<target_mode, include_sort, sorted_dataset, lo, hi>>

BinaryIdle ==
    /\ target_mode = "none"
    /\ include_sort = FALSE
    /\ sorted_dataset = <<>>
    /\ lo = 0
    /\ hi = 0

\* the state of the other programs of the repository
aux == <<policy, amp_marked, amp_rest, classical, adapter, binary>>

AuxIdle ==
    /\ policy = "none"
    /\ amp_marked = 0
    /\ amp_rest = 0
    /\ ClassicalIdle
    /\ AdapterIdle
    /\ BinaryIdle

\* what the steps of a single run leave alone
others == <<vin, repeats, records, aux>>

NoResult == [none |-> TRUE]
NoVector == [amp |-> <<>>, k |-> 0]
NoCounts == <<>>

\* targets of a run: every valid one, and some outside [0, 2^n - 1]
TargetVals(n) == {-1} \cup (0..Dim(n)) \cup {2 * Dim(n) - 1}

Init ==
    /\ n_qubits \in 0..MaxQubits
    /\ target \in TargetVals(n_qubits)
    /\ shots \in (-1)..MaxShots
    /\ warmup \in BOOLEAN
    /\ has_qiskit \in BOOLEAN
    /\ pc = "start"
    /\ iterations = 0
    /\ qc = <<>>
    /\ calls = <<>>
    /\ round = 0
    /\ sv = NoVector
    /\ ip = 0
    /\ counts = NoCounts
    /\ drawn = 0
    /\ transpile_time = 0
    /\ elapsed_exec = 0
    /\ result = NoResult
    /\ err = "none"
    /\ vin = NoVector
    /\ repeats = 1
    /\ records = <<>>
    /\ AuxIdle

\* ---------------------------------------------------------- run_grover_once
\* lines 78-79
CheckQiskit ==
    /\ pc = "start"
    /\ IF has_qiskit THEN pc' = "plan" /\ err' = err
       ELSE pc' = "raised" /\ err' = "RuntimeError"
    /\ UNCHANGED <<n_qubits, target, shots, warmup, has_qiskit, iterations, qc, calls,
                   round, sv, ip, counts, drawn, transpile_time, elapsed_exec, result, others>>

\* line 81
PlanIterations ==
    /\ pc = "plan"
    /\ iterations' = compute_optimal_iterations(n_qubits)
    /\ pc' = "new"
    /\ UNCHANGED <<n_qubits, target, shots, warmup, has_qiskit, qc, calls,
                   round, sv, ip, counts, drawn, transpile_time, elapsed_exec, result, err, others>>

\* line 64
NewCircuit ==
    /\ pc = "new"
    /\ qc' = <<>>
    /\ calls' = <<>>
    /\ round' = 0
    /\ pc' = "hadamard"
    /\ UNCHANGED <<n_qubits, target, shots, warmup, has_qiskit, iterations,
                   sv, ip, counts, drawn, transpile_time, elapsed_exec, result, err, others>>

\* line 65
BuildHadamard ==
    /\ pc = "hadamard"
    /\ qc' = qc \o Layer("h", n_qubits)
    /\ calls' = Append(calls, "h")
    /\ pc' = "loop"
    /\ UNCHANGED <<n_qubits, target, shots, warmup, has_qiskit, iterations,
                   round, sv, ip, counts, drawn, transpile_time, elapsed_exec, result, err, others>>

\* lines 66-67: the oracle of the next round; a refused gate raises CircuitError
BuildOracle ==
    /\ pc = "loop"
    /\ round < iterations
    /\ qc' = qc \o grover_oracle(target, n_qubits)
    /\ calls' = Append(calls, "oracle")
    /\ IF OracleRaises(target, n_qubits)
       THEN pc' = "raised" /\ err' = "CircuitError"
       ELSE pc' = "diffusion" /\ err' = err
    /\ UNCHANGED <<n_qubits, target, shots, warmup, has_qiskit, iterations,
                   round, sv, ip, counts, drawn, transpile_time, elapsed_exec, result, others>>

\* line 68
BuildDiffusion ==
    /\ pc = "diffusion"
    /\ qc' = qc \o grover_diffusion(n_qubits)
    /\ calls' = Append(calls, "diffusion")
    /\ round' = round + 1
    /\ pc' = "loop"
    /\ UNCHANGED <<n_qubits, target, shots, warmup, has_qiskit, iterations,
                   sv, ip, counts, drawn, transpile_time, elapsed_exec, result, err, others>>

\* a loop that stops one round early
BuildMeasure_Early ==
    /\ pc = "loop"
    /\ round >= iterations - 1
    /\ qc' = qc \o Layer("measure", n_qubits)
    /\ calls' = Append(calls, "measure")
    /\ pc' = "transpile"
    /\ UNCHANGED <<n_qubits, target, shots, warmup, has_qiskit, iterations,
                   round, sv, ip, counts, drawn, transpile_time, elapsed_exec, result, err,
                   others>>

\* lines 69-70
BuildMeasure ==
    /\ pc = "loop"
    /\ round >= iterations
    /\ qc' = qc \o Layer("measure", n_qubits)
    /\ calls' = Append(calls, "measure")
    /\ pc' = "transpile"
    /\ UNCHANGED <<n_qubits, target, shots, warmup, has_qiskit, iterations,
                   round, sv, ip, counts, drawn, transpile_time, elapsed_exec, result, err, others>>

\* lines 85-89: the transpiled circuit computes what the circuit computes
Transpile ==
    /\ pc = "transpile"
    /\ transpile_time' \in TimeVals
    /\ pc' = "warmup"
    /\ UNCHANGED <<n_qubits, target, shots, warmup, has_qiskit, iterations, qc, calls,
                   round, sv, ip, counts, drawn, elapsed_exec, result, err, others>>

\* lines 91-95: a run of min(64, shots) shots whose result and errors are dropped
Warmup ==
    /\ pc = "warmup"
    /\ pc' = "run"
    /\ UNCHANGED <<n_qubits, target, shots, warmup, has_qiskit, iterations, qc, calls,
                   round, sv, ip, counts, drawn, transpile_time, elapsed_exec, result, err, others>>

\* lines 97-98: the simulator starts from |0...0>
StartRun ==
    /\ pc = "run"
    /\ shots >= 1
    /\ sv' = ZeroState(n_qubits)
    /\ ip' = 1
    /\ pc' = "simulate"
    /\ UNCHANGED <<n_qubits, target, shots, warmup, has_qiskit, iterations, qc, calls,
                   round, counts, drawn, transpile_time, elapsed_exec, result, err, others>>

\* lines 98-102 with shots <= 0: what the simulator does with such a job is the
\* library's choice: it raises, or it gives a result without a measured shot
StartRunNoShots ==
    /\ pc = "run"
    /\ shots <= 0
    /\ \/ pc' = "raised" /\ err' = "SimulatorError" /\ UNCHANGED <<counts, drawn>>
       \/ pc' = "sample" /\ err' = err /\ counts' = NoCounts /\ drawn' = shots
    /\ UNCHANGED <<n_qubits, target, shots, warmup, has_qiskit, iterations, qc, calls,
                   round, sv, ip, transpile_time, elapsed_exec, result, others>>

\* line 99: job.result() raises (the simulator's own failure)
SimulatorFails ==
    /\ pc = "run"
    /\ shots >= 1
    /\ pc' = "raised"
    /\ err' = "SimulatorError"
    /\ UNCHANGED <<n_qubits, target, shots, warmup, has_qiskit, iterations, qc, calls,
                   round, sv, ip, counts, drawn, transpile_time, elapsed_exec, result, others>>

\* the simulator applies the next gate of the circuit
SimGate ==
    /\ pc = "simulate"
    /\ ip <= Len(qc)
    /\ qc[ip].g # "measure"
    /\ sv' = ApplyGate(sv, qc[ip])
    /\ ip' = ip + 1
    /\ UNCHANGED <<n_qubits, target, shots, warmup, has_qiskit, pc, iterations, qc, calls,
                   round, counts, drawn, transpile_time, elapsed_exec, result, err, others>>

\* the simulator reaches the measurements: sampling starts
SimMeasure ==
    /\ pc = "simulate"
    /\ ip <= Len(qc)
    /\ qc[ip].g = "measure"
    /\ counts' = NoCounts
    /\ drawn' = 0
    /\ pc' = "sample"
    /\ UNCHANGED <<n_qubits, target, shots, warmup, has_qiskit, iterations, qc, calls,
                   round, sv, ip, transpile_time, elapsed_exec, result, err, others>>

\* one shot: a basis state of nonzero probability is measured
Sample ==
    /\ pc = "sample"
    /\ drawn < shots
    /\ \E i \in DOMAIN sv.amp :
          /\ sv.amp[i] # 0
          /\ counts' = CountsAdd(counts, MeasuredKey(i, n_qubits))
    /\ drawn' = drawn + 1
    /\ UNCHANGED <<n_qubits, target, shots, warmup, has_qiskit, pc, iterations, qc, calls,
                   round, sv, ip, transpile_time, elapsed_exec, result, err, others>>

\* counts.get(target_bin, 0), the numerator of success (line 104)
Hits(cnt, t, n) == CountsGet(cnt, FormatBin(t, n))

\* the dict run_grover_once returns; success_rate is hits / shots
RunRecord(it, cnt, t, n, s, el, tt) ==
    [iterations |-> it, hits |-> Hits(cnt, t, n), shots |-> s,
     elapsed_exec_time |-> el, counts |-> cnt, transpile_time |-> tt]

\* lines 100-112
FinishRun ==
    /\ pc = "sample"
    /\ drawn = shots
    /\ \E el \in TimeVals :
          /\ elapsed_exec' = el
          /\ IF shots = 0
             THEN pc' = "raised" /\ err' = "ZeroDivisionError" /\ result' = result
             ELSE /\ pc' = "done"
                  /\ err' = err
                  /\ result' = RunRecord(iterations, counts, target, n_qubits, shots,
                                         el, transpile_time)
    /\ UNCHANGED <<n_qubits, target, shots, warmup, has_qiskit, iterations, qc, calls,
                   round, sv, ip, counts, drawn, transpile_time, others>>

Next ==
    \/ CheckQiskit
    \/ PlanIterations
    \/ NewCircuit
    \/ BuildHadamard
    \/ BuildOracle
    \/ BuildDiffusion
    \/ BuildMeasure
    \/ Transpile
    \/ Warmup
    \/ StartRun
    \/ StartRunNoShots
    \/ SimulatorFails
    \/ SimGate
    \/ SimMeasure
    \/ Sample
    \/ FinishRun

Spec == Init /\ [][Next]_vars

\* ------------------------------------------ an operator on any state vector
\* the input vectors: every vector over AmpVals, exponent 0
InputVectors(n) == {[amp |-> a, k |-> 0] : a \in [0..(Dim(n) - 1) -> AmpVals]}

InitGates ==
    /\ n_qubits \in 1..MaxAnyQubits
    /\ vin \in InputVectors(n_qubits)
    /\ sv = vin
    /\ target = 0
    /\ pc = "input"
    /\ qc = <<>>
    /\ shots = 1
    /\ warmup = FALSE
    /\ has_qiskit = TRUE
    /\ iterations = 0
    /\ calls = <<>>
    /\ round = 0
    /\ ip = 0
    /\ counts = NoCounts
    /\ drawn = 0
    /\ transpile_time = 0
    /\ elapsed_exec = 0
    /\ result = NoResult
    /\ err = "none"
    /\ repeats = 1
    /\ records = <<>>
    /\ AuxIdle

\* grover_oracle(qc, t, n) on an empty circuit, and the circuit run on vin
GateOracle ==
    /\ pc = "input"
    /\ \E t \in 0..(Dim(n_qubits) - 1) :
          /\ target' = t
          /\ qc' = grover_oracle(t, n_qubits)
          /\ sv' = RunGates(vin, grover_oracle(t, n_qubits))
    /\ pc' = "oracle_applied"
    /\ UNCHANGED <<n_qubits, shots, warmup, has_qiskit, iterations, calls, round, ip,
                   counts, drawn, transpile_time, elapsed_exec, result, err, others>>

\* grover_diffusion(qc, n) on an empty circuit, and the circuit run on vin
GateDiffusion ==
    /\ pc = "input"
    /\ qc' = grover_diffusion(n_qubits)
    /\ sv' = RunGates(vin, grover_diffusion(n_qubits))
    /\ pc' = "diffusion_applied"
    /\ UNCHANGED <<n_qubits, target, shots, warmup, has_qiskit, iterations, calls, round,
                   ip, counts, drawn, transpile_time, elapsed_exec, result, err, others>>

\* grover_oracle(qc, target, n) once more, on the state the first call left
GateOracleAgain ==
    /\ pc = "oracle_applied"
    /\ qc' = qc \o grover_oracle(target, n_qubits)
    /\ sv' = RunGates(sv, grover_oracle(target, n_qubits))
    /\ pc' = "oracle_twice"
    /\ UNCHANGED <<n_qubits, target, shots, warmup, has_qiskit, iterations, calls, round,
                   ip, counts, drawn, transpile_time, elapsed_exec, result, err, others>>

\* lines 32-37 (and 45-50) on an empty circuit, and the circuit run on vin
GatePhaseFlip ==
    /\ pc = "input"
    /\ qc' = PhaseFlip(n_qubits)
    /\ sv' = RunGates(vin, PhaseFlip(n_qubits))
    /\ pc' = "phase_flipped"
    /\ UNCHANGED <<n_qubits, target, shots, warmup, has_qiskit, iterations, calls, round,
                   ip, counts, drawn, transpile_time, elapsed_exec, result, err, others>>

NextGates == GateOracle \/ GateDiffusion \/ GateOracleAgain \/ GatePhaseFlip

SpecGates == InitGates /\ [][NextGates]_vars

\* the amplitude of basis state i in s is e (e an integer)
AmpIs(s, i, e) == s.k % 2 = 0 /\ s.amp[i] = (2 ^ (s.k \div 2)) * e

\* the amplitude of basis state i in s is e / d (e, d integers, d > 0)
AmpIsRatio(s, i, e, d) == s.k % 2 = 0 /\ d * s.amp[i] = (2 ^ (s.k \div 2)) * e

SumAmp(s) == SumTo(s.amp, Cardinality(DOMAIN s.amp) - 1)

\* C1: for every n_qubits >= 1 and target in [0, 2^n_qubits - 1], grover_oracle
\* applied to any state vector negates the amplitude at index target and leaves
\* the amplitude at every other index unchanged.
C1_OracleNegatesTarget ==
    pc = "oracle_applied" =>
        \A i \in DOMAIN vin.amp :
            AmpIs(sv, i, IF i = target THEN -vin.amp[i] ELSE vin.amp[i])

\* C2 as stated: the gate sequence of grover_diffusion maps each amplitude a_i
\* to 2*mean(a) - a_i.
C2_DiffusionIsInversionAboutMean ==
    pc = "diffusion_applied" =>
        \A i \in DOMAIN vin.amp :
            AmpIsRatio(sv, i, 2 * SumAmp(vin) - Dim(n_qubits) * vin.amp[i], Dim(n_qubits))

\* C2 as amended: for every n_qubits >= 1 and every input state vector, the gate
\* sequence of grover_diffusion maps each amplitude a_i to a_i - 2*mean(a), the
\* inversion about the mean times the global phase -1.
C2_DiffusionIsNegatedInversion ==
    pc = "diffusion_applied" =>
        \A i \in DOMAIN vin.amp :
            AmpIsRatio(sv, i, Dim(n_qubits) * vin.amp[i] - 2 * SumAmp(vin), Dim(n_qubits))

\* the diffusion has acted on two qubits, on a vector whose amplitudes differ and
\* whose mean is not zero
C2_Witness ==
    /\ pc = "diffusion_applied"
    /\ n_qubits = 2
    /\ SumAmp(vin) # 0
    /\ \E i, j \in DOMAIN vin.amp : vin.amp[i] # vin.amp[j]
    /\ sv.amp # vin.amp

\* --------------------------------------------------- claims on a single run
\* the build step that stands at place j of a circuit of r rounds
StepAt(j, r) ==
    IF j = 1 THEN "h"
    ELSE IF j = 2 * r + 2 THEN "measure"
    ELSE IF j % 2 = 0 THEN "oracle" ELSE "diffusion"

Planned == pc \notin {"start", "plan"} /\ err # "RuntimeError"

Built == calls # <<>> /\ calls[Len(calls)] = "measure"

\* C3: the circuit of build_grover_circuit is the Hadamard layer, then
\* `iterations` rounds of oracle then diffusion (oracle first in every round,
\* never two oracles or two diffusions in a row), then the measurement of all
\* qubits as the last step; iterations is compute_optimal_iterations(n_qubits).
C3_CircuitShape ==
    /\ Planned => iterations = compute_optimal_iterations(n_qubits)
    /\ Len(calls) <= 2 * iterations + 2
    /\ \A j \in 1..Len(calls) : calls[j] = StepAt(j, iterations)
    /\ \A j \in 1..(Len(calls) - 1) : calls[j] # calls[j + 1]
    /\ pc \in {"transpile", "warmup", "run", "simulate", "sample", "done"} => Built
    /\ Built =>
          /\ Len(calls) = 2 * iterations + 2
          /\ SubSeq(qc, 1, n_qubits) = Layer("h", n_qubits)
          /\ SubSeq(qc, Len(qc) - n_qubits + 1, Len(qc)) = Layer("measure", n_qubits)
          /\ SubSeq(qc, n_qubits + 1, Len(qc) - n_qubits)
                = Rounds(target, n_qubits, iterations)
          /\ \A j \in 1..(Len(qc) - n_qubits) : qc[j].g # "measure"

\* a circuit of two rounds on three qubits has been built
C3_Witness ==
    /\ pc = "transpile"
    /\ n_qubits = 3
    /\ iterations = 2
    /\ calls = <<"h", "oracle", "diffusion", "oracle", "diffusion", "measure">>

\* C4: the sum of squared amplitude magnitudes of the state vector is 1 after
\* the initial Hadamard layer, after every complete grover_oracle and after every
\* complete grover_diffusion (here: after every gate the simulator has applied).
C4_NormPreserved ==
    sv # NoVector => NormSq(sv) = 2 ^ sv.k

\* the simulator has just completed the oracle of the second round on 3 qubits
C4_Witness ==
    /\ pc = "simulate"
    /\ n_qubits = 3
    /\ target \in 0..7
    /\ ip - 1 = 3 + 2 * Len(grover_oracle(target, 3)) + Len(grover_diffusion(3))
    /\ \E i \in DOMAIN sv.amp : sv.amp[i] < 0

RECURSIVE SumOver(_, _)
\* the sum of f over the set S
SumOver(f, S) ==
    IF S = {} THEN 0
    ELSE LET x == CHOOSE y \in S : TRUE IN f[x] + SumOver(f, S \ {x})

SumCounts(cnt) == SumOver(cnt, DOMAIN cnt)

\* C5: for every n_qubits and shots >= 1, the histogram a run returns has no
\* negative count and its counts sum to exactly shots.
C5_HistogramConserved ==
    (pc = "done" /\ shots >= 1) =>
        /\ \A key \in DOMAIN result.counts : result.counts[key] >= 0
        /\ SumCounts(result.counts) = shots

\* a run has returned a histogram in which one key was measured twice
C5_Witness ==
    /\ pc = "done"
    /\ shots >= 2
    /\ \E key \in DOMAIN result.counts : result.counts[key] >= 2

ValidTarget(t, n) == 0 <= t /\ t <= Dim(n) - 1

\* C7: a run with a target outside [0, 2^n_qubits - 1] fails before any gate is
\* added to the circuit; it never completes and returns a result record.
C7_InvalidTargetRejected ==
    ~ValidTarget(target, n_qubits) => (qc = <<>> /\ pc # "done")

\* C8: a run with shots <= 0 is rejected before the circuit is built or any gate
\* is applied; no simulation is executed first.
C8_InvalidShotsRejected ==
    shots <= 0 => (qc = <<>> /\ pc \notin {"simulate", "sample", "done"})

\* N * sin(pi/m)^2 in units of 10^-4, from sin(y)^2 = y^2 (1 - y^2/3 + 2 y^4/45)
NSinSq(N, m) ==
    IF m = 2 THEN N * 10000
    ELSE LET y2 == 98696 \div (m * m)
             g == 10000 - y2 \div 3 + (2 * y2 * y2) \div 450000
         IN (((98696 * N) \div (m * m)) * g) \div 10000

\* k is a nearest integer of (pi/4) / asin(1/sqrt(N)): the angle asin(1/sqrt(N))
\* lies between pi/(4k+2) and pi/(4k-2), up to 0.2 percent
NearestToRatio(k, N) ==
    /\ NSinSq(N, 4 * k + 2) <= 10020
    /\ NSinSq(N, 4 * k - 2) >= 9980

\* C10: compute_optimal_iterations(n) is 1 when 2^n <= 1 and otherwise
\* max(1, round((pi/4)/asin(1/sqrt(2^n)))), an integer >= 1; it is 2 for n = 3
\* and 1 for n = 1.
C10_IterationCount ==
    Planned =>
        /\ iterations >= 1
        /\ Dim(n_qubits) <= 1 => iterations = 1
        /\ Dim(n_qubits) > 1 => NearestToRatio(iterations, Dim(n_qubits))
        /\ n_qubits = 3 => iterations = 2
        /\ n_qubits = 1 => iterations = 1

\* the count has been computed for three qubits
C10_Witness == Planned /\ n_qubits = 3 /\ iterations = 2

\* ------------------------------------------------------ run_grover_repeated
RECURSIVE Histograms(_, _)
\* every histogram s shots can give when each is measured as one of keys
Histograms(keys, s) ==
    IF s = 0 THEN {NoCounts}
    ELSE {CountsAdd(c, key) : c \in Histograms(keys, s - 1), key \in keys}

\* the keys of nonzero probability at the end of the circuit of a run
FinalKeys(t, n) ==
    LET final == RunGates(ZeroState(n),
                          build_grover_circuit(t, n, compute_optimal_iterations(n)))
    IN {MeasuredKey(i, n) : i \in {b \in DOMAIN final.amp : final.amp[b] # 0}}

RECURSIVE Insert(_, _)
\* x put into the ascending sequence s
Insert(x, s) ==
    IF s = <<>> THEN <<x>>
    ELSE IF x <= Head(s) THEN <<x>> \o s
    ELSE <<Head(s)>> \o Insert(x, Tail(s))

RECURSIVE SortAsc(_)
SortAsc(s) == IF s = <<>> THEN <<>> ELSE Insert(Head(s), SortAsc(Tail(s)))

\* the middle of the list as it stands, unsorted
Median2_Unsorted(s) ==
    IF Len(s) % 2 = 1 THEN 2 * s[(Len(s) + 1) \div 2]
    ELSE s[Len(s) \div 2] + s[Len(s) \div 2 + 1]

\* twice np.median(s): the middle of the sorted list, or the sum of its two middles
Median2(s) ==
    IF Len(SortAsc(s)) % 2 = 1 THEN 2 * SortAsc(s)[(Len(s) + 1) \div 2]
    ELSE SortAsc(s)[Len(s) \div 2] + SortAsc(s)[Len(s) \div 2 + 1]

Column(recs, field) == [j \in 1..Len(recs) |-> recs[j][field]]

\* lines 122-133: the dict run_grover_repeated returns.  success_rate is
\* success2 / (2 * shots); elapsed_exec_time and transpile_time are elapsed2 / 2
\* and transpile2 / 2
Aggregate(recs) ==
    [iterations |-> Median2(Column(recs, "iterations")) \div 2,
     success2 |-> Median2(Column(recs, "hits")),
     elapsed2 |-> Median2(Column(recs, "elapsed_exec_time")),
     counts |-> recs[Len(recs)].counts,
     transpile2 |-> Median2(Column(recs, "transpile_time"))]

InitRepeated ==
    /\ n_qubits \in 1..MaxRepQubits
    /\ target \in 0..Dim(n_qubits)
    /\ shots \in 1..MaxRepShots
    /\ repeats \in 1..MaxRepeats
    /\ has_qiskit \in BOOLEAN
    /\ warmup = TRUE
    /\ records = <<>>
    /\ pc = "rep_loop"
    /\ iterations = 0
    /\ qc = <<>>
    /\ calls = <<>>
    /\ round = 0
    /\ sv = NoVector
    /\ ip = 0
    /\ counts = NoCounts
    /\ drawn = 0
    /\ transpile_time = 0
    /\ elapsed_exec = 0
    /\ result = NoResult
    /\ err = "none"
    /\ vin = NoVector
    /\ AuxIdle

\* lines 119-121: the next run returns its record
RepRunReturns ==
    /\ pc = "rep_loop"
    /\ Len(records) < repeats
    /\ has_qiskit
    /\ ~OracleRaises(target, n_qubits)
    /\ \E cnt \in Histograms(FinalKeys(target, n_qubits), shots), el, tt \in TimeVals :
          records' = Append(records,
                            RunRecord(compute_optimal_iterations(n_qubits), cnt, target,
                                      n_qubits, shots, el, tt))
    /\ UNCHANGED <<n_qubits, target, shots, warmup, has_qiskit, pc, iterations, qc, calls,
                   round, sv, ip, counts, drawn, transpile_time, elapsed_exec, result, err,
                   vin, repeats, aux>>

\* line 120: the next run raises, and the exception leaves run_grover_repeated
RepRunRaises ==
    /\ pc = "rep_loop"
    /\ Len(records) < repeats
    /\ err' = IF ~has_qiskit THEN "RuntimeError"
              ELSE IF OracleRaises(target, n_qubits) THEN "CircuitError"
              ELSE "SimulatorError"
    /\ pc' = "raised"
    /\ UNCHANGED <<n_qubits, target, shots, warmup, has_qiskit, iterations, qc, calls,
                   round, sv, ip, counts, drawn, transpile_time, elapsed_exec, result,
                   others>>

\* lines 122-133
RepAggregate ==
    /\ pc = "rep_loop"
    /\ Len(records) = repeats
    /\ result' = Aggregate(records)
    /\ pc' = "returned"
    /\ UNCHANGED <<n_qubits, target, shots, warmup, has_qiskit, iterations, qc, calls,
                   round, sv, ip, counts, drawn, transpile_time, elapsed_exec, err,
                   others>>

NextRepeated == RepRunReturns \/ RepRunRaises \/ RepAggregate

SpecRepeated == InitRepeated /\ [][NextRepeated]_vars

\* the number of entries of s below v, and not above v
CountBelow(s, v) == Cardinality({j \in 1..Len(s) : s[j] < v})

CountUpTo(s, v) == Cardinality({j \in 1..Len(s) : s[j] <= v})

\* the k-th smallest entry of s
KthSmallest(s, k) ==
    CHOOSE v \in {s[j] : j \in 1..Len(s)} : CountBelow(s, v) < k /\ CountUpTo(s, v) >= k

\* twice the median of s
MedianTwice(s) == KthSmallest(s, (Len(s) + 1) \div 2) + KthSmallest(s, (Len(s) + 2) \div 2)

\* C6: run_grover_repeated with repeats >= 1 returns iterations, success_rate and
\* elapsed_exec_time each equal to the median of the per-run values over all
\* repeats, and returns as counts the histogram of the last run only.
C6_MedianAggregation ==
    pc = "returned" =>
        /\ Len(records) = repeats
        /\ 2 * result.iterations = MedianTwice(Column(records, "iterations"))
        /\ result.success2 = MedianTwice(Column(records, "hits"))
        /\ result.elapsed2 = MedianTwice(Column(records, "elapsed_exec_time"))
        /\ result.counts = records[repeats].counts
        /\ SumCounts(result.counts) = shots

\* three runs were aggregated whose medians are not the values of the last run and
\* whose first and last histograms differ
C6_Witness ==
    /\ pc = "returned"
    /\ repeats = 3
    /\ result.success2 # 2 * records[3].hits
    /\ result.success2 # 2 * records[2].hits
    /\ result.elapsed2 # 2 * records[2].elapsed_exec_time
    /\ records[1].counts # records[3].counts

\* C9: if the k-th run inside run_grover_repeated fails, the records of runs
\* 1..k-1 that already succeeded are still delivered to the caller.
C9_PriorRecordsDelivered ==
    (pc = "raised" /\ Len(records) >= 1) => result # NoResult

\* ------------------------------------------------ claims on the final state
\* the simulator has applied every gate of the circuit before the measurements
FinalState == pc \in {"sample", "done"} /\ sv # NoVector

\* C11: for n_qubits = 3, target = 5 and 2 (oracle, diffusion) rounds, the
\* probability of the target basis state in the final state vector is within
\* 0.02 of 0.945; that basis state is the one measured as the key the run counts.
C11_TargetProbability ==
    (FinalState /\ n_qubits = 3 /\ target = 5 /\ iterations = 2) =>
        /\ 925 * (2 ^ sv.k) <= 1000 * sv.amp[5] * sv.amp[5]
        /\ 1000 * sv.amp[5] * sv.amp[5] <= 965 * (2 ^ sv.k)
        /\ MeasuredKey(5, 3) = FormatBin(target, n_qubits)

\* the two rounds for target 5 on three qubits have been simulated, and a shot
\* has been measured as the target
C11_Witness ==
    /\ pc = "done"
    /\ n_qubits = 3
    /\ target = 5
    /\ iterations = 2
    /\ ip = Len(build_grover_circuit(5, 3, 2)) - 2
    /\ sv.amp[5] * sv.amp[5] * 128 = 121 * (2 ^ sv.k)
    /\ result.hits >= 1

\* C12 as stated: for n_qubits = 1 and target = 1, after the single (oracle,
\* diffusion) round that the planner prescribes, the probability of measuring
\* the target basis state is at least 0.99.
C12_TargetAlmostCertain ==
    (FinalState /\ n_qubits = 1 /\ target = 1 /\ iterations = 1) =>
        100 * sv.amp[1] * sv.amp[1] >= 99 * (2 ^ sv.k)

\* C12 as amended: for n_qubits = 1 and target = 1 the planner prescribes one
\* round, and after it the probability of measuring the target basis state is
\* exactly 1/2, as it was before the round.
C12_TargetEvenOdds ==
    /\ (Planned /\ n_qubits = 1) => iterations = 1
    /\ (FinalState /\ n_qubits = 1 /\ target = 1) =>
          /\ 2 * sv.amp[1] * sv.amp[1] = 2 ^ sv.k
          /\ 2 * sv.amp[0] * sv.amp[0] = 2 ^ sv.k
          /\ MeasuredKey(1, 1) = FormatBin(target, n_qubits)

\* the one round for target 1 on one qubit has been simulated and two shots
\* drawn, one measured as the target and one not
C12_Witness ==
    /\ pc = "done"
    /\ n_qubits = 1
    /\ target = 1
    /\ iterations = 1
    /\ ip = Len(build_grover_circuit(1, 1, 1))
    /\ shots = 2
    /\ result.hits = 1

\* ------------------------------------- the two rules for the iteration count
MaxPolicyQubits == 10   \* n_qubits where the two rules are compared

\* floor((pi/4) * sqrt(N)) evaluated with pi/8 in place of pi/4
floor_iterations_Eighth(n) == ((PiOver4Fix \div 200) * SqrtFix(Dim(n))) \div 10000000

\* benchmark.py and quantum_search_sim.py: iterations = floor((pi/4) * sqrt(N)),
\* pi/4 in units of 10^-4 and sqrt(N) in units of 10^-3
floor_iterations(n) == ((PiOver4Fix \div 100) * SqrtFix(Dim(n))) \div 10000000

\* the amplitude 1/sqrt(N) of every basis state after qc.h(range(n)), units of 10^-6
UniformAmp(N) == 1000000000 \div SqrtFix(N)

\* grover_diffusion on a vector where the marked state has amplitude a and each of
\* the N - 1 others has amplitude b: the amplitude x becomes x - 2 * mean
DiffusionOf(x, a, b, N) == x - (2 * (a + (N - 1) * b)) \div N

\* one round: grover_oracle negates the marked amplitude, then grover_diffusion
RoundOf(ab, N) ==
    <<DiffusionOf(-ab[1], -ab[1], ab[2], N), DiffusionOf(ab[2], -ab[1], ab[2], N)>>

RECURSIVE RoundsOf(_, _, _)
\* r rounds in a row, from the amplitudes ab
RoundsOf(ab, N, r) ==
    IF r = 0 THEN ab
    ELSE IF r = 1 THEN RoundOf(ab, N)
    ELSE LET half == RoundsOf(ab, N, r \div 2)
         IN IF half[1] = half[2] THEN RoundsOf(half, N, r - r \div 2)
            ELSE RoundsOf(half, N, r - r \div 2)

\* <<marked amplitude, any other amplitude>> after the Hadamard layer and r rounds
AmpsAfter(N, r) == RoundsOf(<<UniformAmp(N), UniformAmp(N)>>, N, r)

InitPolicy ==
    /\ n_qubits \in 1..MaxPolicyQubits
    /\ pc = "policy"
    /\ policy = "none"
    /\ amp_marked = 0
    /\ amp_rest = 0
    /\ ClassicalIdle
    /\ AdapterIdle
    /\ BinaryIdle
    /\ iterations = 0
    /\ round = 0
    /\ target = 0
    /\ shots = 1
    /\ warmup = FALSE
    /\ has_qiskit = TRUE
    /\ qc = <<>>
    /\ calls = <<>>
    /\ sv = NoVector
    /\ ip = 0
    /\ counts = NoCounts
    /\ drawn = 0
    /\ transpile_time = 0
    /\ elapsed_exec = 0
    /\ result = NoResult
    /\ err = "none"
    /\ vin = NoVector
    /\ repeats = 1
    /\ records = <<>>

\* quantum_search.py line 81 and line 65: the count by rounding, the Hadamard layer
PlanByRound ==
    /\ pc = "policy"
    /\ policy' = "round"
    /\ iterations' = compute_optimal_iterations(n_qubits)
    /\ amp_marked' = UniformAmp(Dim(n_qubits))
    /\ amp_rest' = UniformAmp(Dim(n_qubits))
    /\ pc' = "rounds"
    /\ UNCHANGED <<n_qubits, target, shots, warmup, has_qiskit, qc, calls, round, sv, ip,
                   counts, drawn, transpile_time, elapsed_exec, result, err, vin, repeats,
                   records, classical, adapter, binary>>

\* benchmark.py lines 75-79, quantum_search_sim.py lines 51-58: the Hadamard layer,
\* the count by floor
PlanByFloor ==
    /\ pc = "policy"
    /\ policy' = "floor"
    /\ iterations' = floor_iterations(n_qubits)
    /\ amp_marked' = UniformAmp(Dim(n_qubits))
    /\ amp_rest' = UniformAmp(Dim(n_qubits))
    /\ pc' = "rounds"
    /\ UNCHANGED <<n_qubits, target, shots, warmup, has_qiskit, qc, calls, round, sv, ip,
                   counts, drawn, transpile_time, elapsed_exec, result, err, vin, repeats,
                   records, classical, adapter, binary>>

\* one pass of the loop "for _ in range(iterations)": oracle, then diffusion
PolicyRound ==
    /\ pc = "rounds"
    /\ round < iterations
    /\ amp_marked' = RoundOf(<<amp_marked, amp_rest>>, Dim(n_qubits))[1]
    /\ amp_rest' = RoundOf(<<amp_marked, amp_rest>>, Dim(n_qubits))[2]
    /\ round' = round + 1
    /\ UNCHANGED <<n_qubits, target, shots, warmup, has_qiskit, pc, iterations, qc, calls,
                   sv, ip, counts, drawn, transpile_time, elapsed_exec, result, err, vin,
                   repeats, records, policy, classical, adapter, binary>>

\* the loop is over: the circuit is measured
PolicyMeasure ==
    /\ pc = "rounds"
    /\ round >= iterations
    /\ pc' = "measured"
    /\ UNCHANGED <<n_qubits, target, shots, warmup, has_qiskit, iterations, qc, calls,
                   round, sv, ip, counts, drawn, transpile_time, elapsed_exec, result, err,
                   others>>

NextPolicy == PlanByRound \/ PlanByFloor \/ PolicyRound \/ PolicyMeasure

SpecPolicy == InitPolicy /\ [][NextPolicy]_vars

Abs(x) == IF x < 0 THEN -x ELSE x

\* the rounding rule has finished its rounds and the floor rule gives another count
RulesDiffer ==
    /\ pc = "measured"
    /\ policy = "round"
    /\ iterations # floor_iterations(n_qubits)

\* C13 as stated: for every n where the round-based count differs from the
\* floor-based count, the floor-based count is the smaller one and the round-based
\* count gives a target measurement probability at least as high.
C13_RoundAtLeastAsGood ==
    RulesDiffer =>
        /\ floor_iterations(n_qubits) < iterations
        /\ Abs(amp_marked) >= Abs(AmpsAfter(Dim(n_qubits), floor_iterations(n_qubits))[1])

\* C13 as amended: for every n where the two counts differ, the floor-based count
\* is the smaller by one, and the round-based count gives the marked state a
\* strictly lower probability than the floor-based count (it rotates past the
\* maximum); where the counts agree so do the probabilities.
C13_FloorAtLeastAsGood ==
    /\ pc \in {"rounds", "measured"} =>
          <<amp_marked, amp_rest>> = AmpsAfter(Dim(n_qubits), round)
    /\ RulesDiffer =>
          /\ floor_iterations(n_qubits) = iterations - 1
          /\ Abs(amp_marked) < Abs(AmpsAfter(Dim(n_qubits), floor_iterations(n_qubits))[1])
          /\ Abs(amp_marked) > 990000

\* the rounding rule has run its 9 rounds on 7 qubits, where floor gives 8
C13_Witness ==
    /\ RulesDiffer
    /\ n_qubits = 7
    /\ round = 9
    /\ floor_iterations(7) = 8

\* ---------------------------------------------------------- linear searches
MaxLen == 3   \* length of a searched list
MaxVal == 2   \* largest value in a searched list

\* no Grover run is in progress
QuantumIdle ==
    /\ n_qubits = 1
    /\ shots = 1
    /\ warmup = FALSE
    /\ has_qiskit = TRUE
    /\ iterations = 0
    /\ qc = <<>>
    /\ calls = <<>>
    /\ round = 0
    /\ sv = NoVector
    /\ ip = 0
    /\ counts = NoCounts
    /\ drawn = 0
    /\ transpile_time = 0
    /\ elapsed_exec = 0
    /\ vin = NoVector
    /\ repeats = 1
    /\ records = <<>>
    /\ policy = "none"
    /\ amp_marked = 0
    /\ amp_rest = 0

quantum == <<n_qubits, shots, warmup, has_qiskit, iterations, qc, calls, round, sv, ip,
             counts, drawn, transpile_time, elapsed_exec, vin, repeats, records, policy,
             amp_marked, amp_rest>>

\* the lists of length 0..m over the values vals
Lists(vals, m) == UNION {[1..len -> vals] : len \in 0..m}

RECURSIVE IndexFrom(_, _, _)
IndexFrom(ds, t, j) ==
    IF j > Len(ds) THEN -1
    ELSE IF ds[j] = t THEN j - 1
    ELSE IndexFrom(ds, t, j + 1)

\* a search from the right end of the list
list_index_Last(ds, t) ==
    IF \E j \in 1..Len(ds) : ds[j] = t
    THEN (CHOOSE j \in 1..Len(ds) : ds[j] = t /\ \A m \in (j + 1)..Len(ds) : ds[m] # t) - 1
    ELSE -1

\* ds.index(t), with -1 standing for ValueError
list_index(ds, t) == IndexFrom(ds, t, 1)

LinearRoutines == {"classical_search", "benchmark.classical_search", "linear_search_once"}

InitLinear ==
    /\ dataset \in Lists(0..MaxVal, MaxLen)
    /\ target \in 0..MaxVal
    /\ routine \in LinearRoutines
    /\ pc = "call"
    /\ steps = 0
    /\ cursor = 0
    /\ idx_c = -1
    /\ idx_py = -1
    /\ result = NoResult
    /\ err = "none"
    /\ QuantumIdle
    /\ AdapterIdle
    /\ BinaryIdle

\* classical_search.py line 15, benchmark.py lines 21-22: steps = 0, the loop begins
ClassicalStart ==
    /\ pc = "call"
    /\ routine \in {"classical_search", "benchmark.classical_search"}
    /\ steps' = 0
    /\ cursor' = 0
    /\ pc' = "loop"
    /\ UNCHANGED <<target, result, err, routine, dataset, idx_c, idx_py, quantum, adapter, binary>>

\* classical_search.py lines 16-19, benchmark.py lines 24-28: one item of
\* enumerate(dataset); a match returns
ClassicalItem ==
    /\ pc = "loop"
    /\ routine \in {"classical_search", "benchmark.classical_search"}
    /\ cursor < Len(dataset)
    /\ steps' = steps + 1
    /\ IF dataset[cursor + 1] = target
       THEN /\ pc' = "returned"
            /\ cursor' = cursor
            /\ \E el \in TimeVals :
                  result' = IF routine = "classical_search"
                            THEN [index |-> cursor, steps |-> steps + 1]
                            ELSE [index |-> cursor, steps |-> steps + 1, elapsed |-> el]
       ELSE /\ pc' = pc
            /\ cursor' = cursor + 1
            /\ result' = result
    /\ UNCHANGED <<target, err, routine, dataset, idx_c, idx_py, quantum, adapter, binary>>

\* classical_search.py line 20, benchmark.py lines 30-31: the loop ran out
ClassicalExhausted ==
    /\ pc = "loop"
    /\ routine \in {"classical_search", "benchmark.classical_search"}
    /\ cursor >= Len(dataset)
    /\ pc' = "returned"
    /\ \E el \in TimeVals :
          result' = IF routine = "classical_search"
                    THEN [index |-> -1, steps |-> steps]
                    ELSE [index |-> -1, steps |-> steps, elapsed |-> el]
    /\ UNCHANGED <<target, err, routine, dataset, steps, cursor, idx_c, idx_py, quantum, adapter, binary>>

\* linear_search.py lines 18-28: idx_c from dataset.index, then steps = 0, idx_py = -1
LinearIndex ==
    /\ pc = "call"
    /\ routine = "linear_search_once"
    /\ idx_c' = list_index(dataset, target)
    /\ steps' = 0
    /\ idx_py' = -1
    /\ cursor' = 0
    /\ pc' = "loop"
    /\ UNCHANGED <<target, result, err, routine, dataset, quantum, adapter, binary>>

\* linear_search.py lines 29-33: one item of enumerate(dataset); a match breaks
LinearItem ==
    /\ pc = "loop"
    /\ routine = "linear_search_once"
    /\ cursor < Len(dataset)
    /\ steps' = steps + 1
    /\ IF dataset[cursor + 1] = target
       THEN idx_py' = cursor /\ pc' = "after_loop" /\ cursor' = cursor
       ELSE idx_py' = idx_py /\ pc' = pc /\ cursor' = cursor + 1
    /\ UNCHANGED <<target, result, err, routine, dataset, idx_c, quantum, adapter, binary>>

\* the loop ran out without a break
LinearExhausted ==
    /\ pc = "loop"
    /\ routine = "linear_search_once"
    /\ cursor >= Len(dataset)
    /\ pc' = "after_loop"
    /\ UNCHANGED <<target, result, err, routine, dataset, steps, cursor, idx_c, idx_py,
                   quantum, adapter, binary>>

\* linear_search.py lines 34-42
LinearReturn ==
    /\ pc = "after_loop"
    /\ \E elc, elpy \in TimeVals :
          result' = [index |-> IF idx_c # -1 THEN idx_c ELSE idx_py, steps |-> steps,
                     elapsed_c_impl |-> elc, elapsed_py_impl |-> elpy]
    /\ pc' = "returned"
    /\ UNCHANGED <<target, err, routine, dataset, steps, cursor, idx_c, idx_py, quantum, adapter, binary>>

NextLinear ==
    \/ ClassicalStart
    \/ ClassicalItem
    \/ ClassicalExhausted
    \/ LinearIndex
    \/ LinearItem
    \/ LinearExhausted
    \/ LinearReturn

SpecLinear == InitLinear /\ [][NextLinear]_vars

\* the positions (from 0) where the list holds the value
Positions(ds, t) == {j \in 0..(Len(ds) - 1) : ds[j + 1] = t}

Texts == {<<>>, <<" ">>, <<"A">>, <<" ", "a", "b">>, <<"a", ",", "b">>}

Needles == {<<>>, <<"a">>, <<"A", "B">>, <<"a", " ", "b">>, <<" ", "a">>}

\* what the path's suffix and the file's content are (".log" goes the way of ".txt")
FileKinds == {"txt", "csv", "json", "json_other", "unsupported"}

\* str.lower() of one character
Lower(c) == CASE c = "A" -> "a" [] c = "B" -> "b" [] OTHER -> c

\* str.lower()
LowerText(s) == [j \in 1..Len(s) |-> Lower(s[j])]

\* sub in s
Contains(sub, s) ==
    \E off \in 0..(Len(s) - Len(sub)) : SubSeq(s, off + 1, off + Len(sub)) = sub

RECURSIVE LStrip(_)
LStrip(s) == IF s # <<>> /\ Head(s) = " " THEN LStrip(Tail(s)) ELSE s

RECURSIVE RStrip(_)
RStrip(s) == IF s # <<>> /\ s[Len(s)] = " " THEN RStrip(SubSeq(s, 1, Len(s) - 1)) ELSE s

\* line.strip()
Strip(s) == RStrip(LStrip(s))

\* " ".join(row) of the row csv.reader splits at the commas
CsvJoin(s) == [j \in 1..Len(s) |-> IF s[j] = "," THEN " " ELSE s[j]]

CharCode(c) ==
    CASE c = " " -> 32 [] c = "," -> 44 [] c = "A" -> 65 [] c = "B" -> 66
      [] c = "a" -> 97 [] c = "b" -> 98 [] OTHER -> 63

RECURSIVE HashFrom(_, _)
HashFrom(h, s) == IF s = <<>> THEN h ELSE HashFrom((h * 31 + CharCode(Head(s))) % 65521, Tail(s))

\* encode(value): a hash of str(value), a non-negative integer
encode(s) == HashFrom(7, s)

\* the record a row of the file gives: the stripped line, the joined row, the item
RecordOf(kind, row) ==
    CASE kind = "txt" -> Strip(row)
      [] kind = "csv" -> CsvJoin(row)
      [] OTHER -> row

\* a line that line 55 drops
Skipped(kind, row) == kind = "txt" /\ Strip(row) = <<>>

\* "if max_rows and i >= max_rows": None and 0 set no limit
Limited(limit, i) == limit # 0 /\ i >= limit

\* check_and_add where the first match does not keep its place
check_and_add_Last(st, record, sought) ==
    IF Contains(LowerText(sought), LowerText(record))
    THEN [dataset |-> Append(st.dataset, encode(record)),
          target_value |-> encode(record),
          target_index |-> Len(st.dataset),
          matched_row |-> record]
    ELSE [st EXCEPT !.dataset = Append(st.dataset, encode(record))]

\* lines 38-46
check_and_add(st, record, sought) ==
    IF st.target_index = NoneInt /\ Contains(LowerText(sought), LowerText(record))
    THEN [dataset |-> Append(st.dataset, encode(record)),
          target_value |-> encode(record),
          target_index |-> Len(st.dataset),
          matched_row |-> record]
    ELSE [st EXCEPT !.dataset = Append(st.dataset, encode(record))]

\* the locals of load_and_find_target that check_and_add works on
Locals ==
    [dataset |-> dataset, target_value |-> target_value, target_index |-> target_index,
     matched_row |-> matched_row]

InitAdapter ==
    /\ file_kind \in FileKinds
    /\ rows \in Lists(Texts, MaxLen)
    /\ max_rows \in 0..MaxLen
    /\ needle \in Needles
    /\ pc = "call"
    /\ dataset = <<>>
    /\ target_value = NoneInt
    /\ target_index = NoneInt
    /\ matched_row = NoneRow
    /\ cursor = 0
    /\ routine = "load_and_find_target"
    /\ steps = 0
    /\ idx_c = -1
    /\ idx_py = -1
    /\ target = 0
    /\ result = NoResult
    /\ err = "none"
    /\ QuantumIdle
    /\ BinaryIdle

\* lines 31-36, and the branch on the suffix (lines 49, 59, 69-73, 80-81)
LoadOpen ==
    /\ pc = "call"
    /\ dataset' = <<>>
    /\ target_value' = NoneInt
    /\ target_index' = NoneInt
    /\ matched_row' = NoneRow
    /\ cursor' = 0
    /\ IF file_kind \in {"unsupported", "json_other"}
       THEN pc' = "raised" /\ err' = "ValueError"
       ELSE pc' = "rows" /\ err' = err
    /\ UNCHANGED <<target, result, routine, steps, idx_c, idx_py, file_kind, rows,
                   max_rows, needle, quantum, binary>>

\* lines 51-56, 62-66, 75-78: the next row of the file
LoadRow ==
    /\ pc = "rows"
    /\ cursor < Len(rows)
    /\ ~Limited(max_rows, cursor)
    /\ LET after == IF Skipped(file_kind, rows[cursor + 1]) THEN Locals
                    ELSE check_and_add(Locals, RecordOf(file_kind, rows[cursor + 1]), needle)
       IN /\ dataset' = after.dataset
          /\ target_value' = after.target_value
          /\ target_index' = after.target_index
          /\ matched_row' = after.matched_row
    /\ cursor' = cursor + 1
    /\ UNCHANGED <<target, result, err, pc, routine, steps, idx_c, idx_py, file_kind, rows,
                   max_rows, needle, quantum, binary>>

\* lines 83-86: the rows are over, or max_rows is reached
LoadEnd ==
    /\ pc = "rows"
    /\ cursor >= Len(rows) \/ Limited(max_rows, cursor)
    /\ IF target_index = NoneInt
       THEN pc' = "raised" /\ err' = "ValueError" /\ result' = result
       ELSE /\ pc' = "returned"
            /\ err' = err
            /\ result' = Locals
    /\ UNCHANGED <<target, routine, dataset, steps, cursor, idx_c, idx_py, adapter, quantum, binary>>

NextAdapter == LoadOpen \/ LoadRow \/ LoadEnd

SpecAdapter == InitAdapter /\ [][NextAdapter]_vars

\* t occurs in s when case is ignored
ContainsIgnoringCase(t, s) ==
    \E off \in 0..(Len(s) - Len(t)) :
        \A j \in 1..Len(t) : Lower(t[j]) = Lower(s[off + j])

\* the rows of the file that are read: all, or the first max_rows
RowsRead == IF max_rows = 0 \/ max_rows > Len(rows) THEN Len(rows) ELSE max_rows

\* the records loaded, in order
LoadedRecords ==
    LET kept == SelectSeq([j \in 1..RowsRead |-> <<j, rows[j]>>],
                          LAMBDA e : ~Skipped(file_kind, e[2]))
    IN [j \in 1..Len(kept) |-> RecordOf(file_kind, kept[j][2])]

\* the positions (from 0) of the loaded records that contain the target
Matches == {j \in 0..(Len(LoadedRecords) - 1) :
               ContainsIgnoringCase(needle, LoadedRecords[j + 1])}

\* C15: load_and_find_target returns target_index equal to the smallest index in
\* the returned dataset whose source record contains the target string
\* case-insensitively, with dataset[target_index] = target_value and matched_row
\* that record; it raises ValueError when no loaded record (within max_rows)
\* contains the target, and then returns nothing.
C15_FirstMatch ==
    /\ pc = "returned" =>
          /\ result.dataset = [j \in 1..Len(LoadedRecords) |-> encode(LoadedRecords[j])]
          /\ result.target_index \in Matches
          /\ \A j \in Matches : result.target_index <= j
          /\ result.dataset[result.target_index + 1] = result.target_value
          /\ result.matched_row = LoadedRecords[result.target_index + 1]
    /\ (pc = "returned" \/ (pc = "raised" /\ file_kind \in {"txt", "csv", "json"})) =>
          (Matches = {} <=> (pc = "raised" /\ err = "ValueError" /\ result = NoResult))

\* a text file with a blank line ahead of two matching records within max_rows has
\* been loaded: the first match is at index 0 of the dataset, from line 2
C15_Witness ==
    /\ pc = "returned"
    /\ file_kind = "txt"
    /\ Len(rows) = 3
    /\ Strip(rows[1]) = <<>>
    /\ Cardinality(Matches) = 2
    /\ result.target_index = 0
    /\ result.matched_row # rows[2]
    /\ Len(result.dataset) = 2

\* --------------------------------------------- claims on the marked state
\* the simulator has just completed the oracle of the first round
FirstOracleDone ==
    /\ pc = "simulate"
    /\ n_qubits >= 1
    /\ ValidTarget(target, n_qubits)
    /\ ip - 1 = n_qubits + Len(grover_oracle(target, n_qubits))

\* C16: for every n_qubits >= 1 and every target in [0, 2^n_qubits - 1], the
\* basis state that the oracle marks is the basis state whose histogram key
\* format(target, '0{n}b') the run looks up to compute success_rate.
C16_MarkedIsCounted ==
    /\ FirstOracleDone =>
          \A i \in DOMAIN sv.amp :
              sv.amp[i] < 0 => MeasuredKey(i, n_qubits) = FormatBin(target, n_qubits)
    /\ (pc = "done" /\ shots >= 1 /\ n_qubits = 2 /\ ValidTarget(target, 2)) =>
          result.hits = shots

\* ------------------------------------------------ claims on the gate blocks
\* the X gates that open a grover_oracle block, and those that close it
XBefore(gs, n) == SubSeq(gs, 1, (Len(gs) - Len(PhaseFlip(n))) \div 2)

XAfter(gs, n) == SubSeq(gs, (Len(gs) + Len(PhaseFlip(n))) \div 2 + 1, Len(gs))

\* C17: grover_oracle is self-inverse: the X gates applied after the phase flip
\* act on exactly the same qubits as the X gates applied before it, so applying
\* grover_oracle twice with the same target restores every amplitude of any state
\* vector to its original value.
C17_OracleSelfInverse ==
    /\ pc = "oracle_applied" =>
          /\ XBefore(qc, n_qubits) = XAfter(qc, n_qubits)
          /\ \A j \in 1..Len(XBefore(qc, n_qubits)) : XBefore(qc, n_qubits)[j].g = "x"
          /\ qc = XBefore(qc, n_qubits) \o PhaseFlip(n_qubits) \o XAfter(qc, n_qubits)
    /\ pc = "oracle_twice" =>
          \A i \in DOMAIN vin.amp : AmpIs(sv, i, vin.amp[i])

\* the oracle for target 1 on two qubits, which has an X gate on each side, has
\* been applied twice to a vector that one application changes
C17_Witness ==
    /\ pc = "oracle_twice"
    /\ n_qubits = 2
    /\ target = 1
    /\ Len(qc) = 10
    /\ qc[1].g = "x"
    /\ vin.amp[2] # 0
    /\ vin.amp[1] # vin.amp[2]
    /\ sv = vin

\* C18: the phase-flip block used by both oracle and diffusion (for n >= 2: H on
\* qubit n-1, MCX with controls 0..n-2 and target n-1, H on qubit n-1; for n = 1:
\* Z on qubit 0) negates the amplitude of the all-ones basis state (index 2^n - 1)
\* and leaves every other amplitude unchanged.
C18_PhaseFlipAllOnes ==
    pc = "phase_flipped" =>
        /\ n_qubits = 1 => qc = <<Gate("z", 0, {})>>
        /\ n_qubits >= 2 =>
              qc = <<Gate("h", n_qubits - 1, {}),
                     Gate("mcx", n_qubits - 1, 0..(n_qubits - 2)),
                     Gate("h", n_qubits - 1, {})>>
        /\ \A i \in DOMAIN vin.amp :
              AmpIs(sv, i, IF i = Dim(n_qubits) - 1 THEN -vin.amp[i] ELSE vin.amp[i])

\* the block of two qubits has acted on a vector with four nonzero amplitudes
\* that differ between the all-ones state and its partner under the MCX
C18_Witness ==
    /\ pc = "phase_flipped"
    /\ n_qubits = 2
    /\ \A i \in DOMAIN vin.amp : vin.amp[i] # 0
    /\ vin.amp[3] = 1
    /\ vin.amp[1] = -1
    /\ sv.amp[3] = -1

\* ---------------------------------- build_grover_circuit with any iterations
MaxRounds == 3   \* the iterations argument of build_grover_circuit

\* build_grover_circuit(target, n_qubits, iterations) has returned its circuit, and
\* the simulator is about to run it from |0...0>
InitCircuit ==
    /\ n_qubits \in 1..MaxQubits
    /\ target \in {t \in TargetVals(n_qubits) : ~OracleRaises(t, n_qubits)}
    /\ iterations \in 0..MaxRounds
    /\ qc = build_grover_circuit(target, n_qubits, iterations)
    /\ round = iterations
    /\ calls = <<>>
    /\ pc = "simulate"
    /\ sv = ZeroState(n_qubits)
    /\ ip = 1
    /\ shots = 1
    /\ warmup = FALSE
    /\ has_qiskit = TRUE
    /\ counts = NoCounts
    /\ drawn = 0
    /\ transpile_time = 0
    /\ elapsed_exec = 0
    /\ result = NoResult
    /\ err = "none"
    /\ vin = NoVector
    /\ repeats = 1
    /\ records = <<>>
    /\ AuxIdle

NextCircuit == SimGate \/ SimMeasure

SpecCircuit == InitCircuit /\ [][NextCircuit]_vars

\* the basis state the X gates of grover_oracle map to all ones: character q of
\* the bit string steers qubit q
MarkedIndex(t, n) ==
    SumTo([q \in 0..(n - 1) |-> IF FormatBin(t, n)[q + 1] = "0" THEN 0 ELSE 2 ^ q], n - 1)

\* the number of complete rounds the simulator has applied, -1 between boundaries
RoundsDone ==
    LET len == Len(grover_oracle(target, n_qubits)) + Len(grover_diffusion(n_qubits))
    IN IF ip - 1 >= n_qubits /\ ip - 1 <= n_qubits + iterations * len
          /\ (ip - 1 - n_qubits) % len = 0
       THEN (ip - 1 - n_qubits) \div len
       ELSE -1

\* the probability p (units of 10^-3) is the square of amplitude i of s, up to 0.003
ProbIs(s, i, p) ==
    /\ p * (2 ^ s.k) - 1000 * s.amp[i] * s.amp[i] <= 3 * (2 ^ s.k)
    /\ 1000 * s.amp[i] * s.amp[i] - p * (2 ^ s.k) <= 3 * (2 ^ s.k)

\* the square of the amplitude a (units of 10^-6), in units of 10^-3
SquareOf(a) == ((a \div 1000) * (a \div 1000)) \div 1000

\* C19: at every round boundary of the circuit of build_grover_circuit (after the
\* initial Hadamard layer and after each complete oracle + diffusion round) all
\* basis states other than the single marked state have one common amplitude, for
\* every n_qubits, target and iteration count.  The marked state is the one the
\* oracle marks, and the two amplitudes are those of the two-amplitude evolution.
C19_UniformOffMarked ==
    RoundsDone >= 0 =>
        /\ \A i, j \in DOMAIN sv.amp \ {MarkedIndex(target, n_qubits)} :
              sv.amp[i] = sv.amp[j]
        /\ ProbIs(sv, MarkedIndex(target, n_qubits),
                  SquareOf(AmpsAfter(Dim(n_qubits), RoundsDone)[1]))
        /\ \A i \in DOMAIN sv.amp \ {MarkedIndex(target, n_qubits)} :
              ProbIs(sv, i, SquareOf(AmpsAfter(Dim(n_qubits), RoundsDone)[2]))

\* three rounds on three qubits for target 1, whose marked state is index 4, have
\* been simulated: the marked amplitude differs from the common one
C19_Witness ==
    /\ pc = "simulate"
    /\ n_qubits = 3
    /\ target = 1
    /\ iterations = 3
    /\ RoundsDone = 3
    /\ MarkedIndex(1, 3) = 4
    /\ sv.amp[4] # sv.amp[1]
    /\ sv.amp[1] = sv.amp[0]

\* -------------------------------------------- run_scalability_compare_ui
MaxCmpQubits == 2   \* max_qubits of the comparison

TargetModes == {"random", "start", "middle", "end"}

CompareRepeats == {1, 2}   \* repeats per point

RECURSIVE Perms(_)
\* every order of the elements of S, as a list
Perms(S) == IF S = {} THEN {<<>>}
            ELSE UNION {{<<x>> \o p : p \in Perms(S \ {x})} : x \in S}

\* list(range(N))
RangeList(N) == [j \in 1..N |-> j - 1]

\* ds[a], ds[b] = ds[b], ds[a], positions from 0
Swapped(ds, a, b) == [ds EXCEPT ![a + 1] = ds[b + 1], ![b + 1] = ds[a + 1]]

\* main.py lines 184-203: the lists ds can be when the target has been placed
PlacedLists(mode, N) ==
    CASE mode = "random" -> Perms(0..(N - 1))
      [] mode = "start" ->
            {Swapped(RangeList(N), 0, list_index(RangeList(N), 0))}
      [] mode = "middle" ->
            {Swapped(RangeList(N), N \div 2, list_index(RangeList(N), N \div 2))}
      [] OTHER ->
            {Swapped(RangeList(N), N - 1, list_index(RangeList(N), N - 1))}

\* main.py lines 189, 191, 196, 201
TargetVal(mode, N) ==
    CASE mode = "random" -> N \div 2
      [] mode = "start" -> 0
      [] mode = "middle" -> N \div 2
      [] OTHER -> N - 1

\* the index and steps linear_search_once returns
linear_search_once(ds, t) ==
    [index |-> list_index(ds, t),
     steps |-> IF list_index(ds, t) = -1 THEN Len(ds) ELSE list_index(ds, t) + 1]

InitCompare ==
    /\ n_qubits \in 1..MaxCmpQubits
    /\ target_mode \in TargetModes
    /\ include_sort \in BOOLEAN
    /\ repeats \in CompareRepeats
    /\ round = 0
    /\ records = <<>>
    /\ pc = "repeat"
    /\ target = 0
    /\ dataset = <<>>
    /\ sorted_dataset = <<>>
    /\ lo = 0
    /\ hi = 0
    /\ steps = 0
    /\ result = NoResult
    /\ err = "none"
    /\ shots = 1
    /\ warmup = FALSE
    /\ has_qiskit = TRUE
    /\ iterations = 0
    /\ qc = <<>>
    /\ calls = <<>>
    /\ sv = NoVector
    /\ ip = 0
    /\ counts = NoCounts
    /\ drawn = 0
    /\ transpile_time = 0
    /\ elapsed_exec = 0
    /\ vin = NoVector
    /\ policy = "none"
    /\ amp_marked = 0
    /\ amp_rest = 0
    /\ routine = "none"
    /\ cursor = 0
    /\ idx_c = -1
    /\ idx_py = -1
    /\ AdapterIdle

\* what a repeat of the comparison leaves alone
compare_rest == <<n_qubits, shots, warmup, has_qiskit, iterations, qc, calls, sv, ip,
                  counts, drawn, transpile_time, elapsed_exec, err, vin, repeats, policy,
                  amp_marked, amp_rest, routine, cursor, idx_c, idx_py, adapter,
                  target_mode, include_sort>>

\* main.py lines 183-203: the next repeat builds ds and places the target
PlaceTarget ==
    /\ pc = "repeat"
    /\ round < repeats
    /\ dataset' \in PlacedLists(target_mode, Dim(n_qubits))
    /\ target' = TargetVal(target_mode, Dim(n_qubits))
    /\ pc' = "linear"
    /\ UNCHANGED <<round, records, result, sorted_dataset, lo, hi, steps, compare_rest>>

\* main.py lines 206-208: lin.  The lists cs_steps, cs_times and bs_* only collect
\* what the searches return for the means of lines 217-221; they are not followed
CompareLinear ==
    /\ pc = "linear"
    /\ result' = linear_search_once(dataset, target)
    /\ pc' = "binary"
    /\ UNCHANGED <<round, records, target, dataset, sorted_dataset, lo, hi, steps,
                   compare_rest>>

\* main.py line 211, binary_search.py lines 32-39 and 17-19: the list is sorted or
\* taken as it is, and binary_search_once starts on it
BinaryStart ==
    /\ pc = "binary"
    /\ sorted_dataset' = IF include_sort THEN SortAsc(dataset) ELSE dataset
    /\ lo' = 0
    /\ hi' = Len(dataset) - 1
    /\ steps' = 0
    /\ pc' = "bs_loop"
    /\ UNCHANGED <<round, records, result, target, dataset, compare_rest>>

\* a loop that moves lo to mid, not past it
BinaryStep_LoAtMid ==
    /\ pc = "bs_loop"
    /\ lo <= hi
    /\ steps' = steps + 1
    /\ LET mid == (lo + hi) \div 2
       IN IF sorted_dataset[mid + 1] = target
          THEN /\ result' = [index |-> mid, steps |-> steps + 1,
                             sorted_dataset |-> sorted_dataset]
               /\ pc' = "bs_returned"
               /\ UNCHANGED <<lo, hi>>
          ELSE IF sorted_dataset[mid + 1] < target
          THEN lo' = mid /\ UNCHANGED <<hi, result, pc>>
          ELSE hi' = mid - 1 /\ UNCHANGED <<lo, result, pc>>
    /\ UNCHANGED <<round, records, target, dataset, sorted_dataset, compare_rest>>

\* binary_search.py lines 20-28: one pass of the while loop
BinaryStep ==
    /\ pc = "bs_loop"
    /\ lo <= hi
    /\ steps' = steps + 1
    /\ LET mid == (lo + hi) \div 2
       IN IF sorted_dataset[mid + 1] = target
          THEN /\ result' = [index |-> mid, steps |-> steps + 1,
                             sorted_dataset |-> sorted_dataset]
               /\ pc' = "bs_returned"
               /\ UNCHANGED <<lo, hi>>
          ELSE IF sorted_dataset[mid + 1] < target
          THEN lo' = mid + 1 /\ UNCHANGED <<hi, result, pc>>
          ELSE hi' = mid - 1 /\ UNCHANGED <<lo, result, pc>>
    /\ UNCHANGED <<round, records, target, dataset, sorted_dataset, compare_rest>>

\* binary_search.py line 29: the loop ends without a match
BinaryMiss ==
    /\ pc = "bs_loop"
    /\ lo > hi
    /\ result' = [index |-> -1, steps |-> steps, sorted_dataset |-> sorted_dataset]
    /\ pc' = "bs_returned"
    /\ UNCHANGED <<round, records, target, dataset, sorted_dataset, lo, hi, steps,
                   compare_rest>>

\* main.py lines 212-214: the times of b are kept, the repeat is over and its
\* locals are dead
RepeatEnd ==
    /\ pc = "bs_returned"
    /\ round' = round + 1
    /\ pc' = "repeat"
    /\ dataset' = <<>>
    /\ sorted_dataset' = <<>>
    /\ target' = 0
    /\ lo' = 0
    /\ hi' = 0
    /\ steps' = 0
    /\ result' = NoResult
    /\ UNCHANGED <<records, compare_rest>>

NextCompare ==
    \/ PlaceTarget
    \/ CompareLinear
    \/ BinaryStart
    \/ BinaryStep
    \/ BinaryMiss
    \/ RepeatEnd

SpecCompare == InitCompare /\ [][NextCompare]_vars

IsSortedAsc(s) == \A j \in 1..(Len(s) - 1) : s[j] <= s[j + 1]

\* C20: in every repeat of run_scalability_compare_ui, for each target mode and
\* each choice of include_sort, the list handed to binary_search_once is sorted
\* ascending, so the binary search finds target_val (returned index is not -1).
C20_BinaryInputSorted ==
    /\ pc \in {"bs_loop", "bs_returned"} => IsSortedAsc(sorted_dataset)
    /\ pc = "bs_returned" => result.index # -1

\* ------------------------------------------- binary_search_once on any list
\* binary_search_once(sorted_dataset, target) is called with any list, sorted or not
InitBinary ==
    /\ sorted_dataset \in Lists(0..MaxVal, MaxLen)
    /\ target \in 0..MaxVal
    /\ pc = "bs_call"
    /\ lo = 0
    /\ hi = 0
    /\ steps = 0
    /\ result = NoResult
    /\ err = "none"
    /\ routine = "binary_search_once"
    /\ dataset = <<>>
    /\ cursor = 0
    /\ idx_c = -1
    /\ idx_py = -1
    /\ target_mode = "none"
    /\ include_sort = FALSE
    /\ QuantumIdle
    /\ AdapterIdle

\* binary_search.py lines 17-19: lo, hi = 0, len - 1; steps = 0
BinaryEnter ==
    /\ pc = "bs_call"
    /\ lo' = 0
    /\ hi' = Len(sorted_dataset) - 1
    /\ steps' = 0
    /\ pc' = "bs_loop"
    /\ UNCHANGED <<round, records, result, target, dataset, sorted_dataset, compare_rest>>

NextBinary == BinaryEnter \/ BinaryStep \/ BinaryMiss

\* the interpreter keeps running the call until it returns
SpecBinary == InitBinary /\ [][NextBinary]_vars /\ WF_vars(NextBinary)

RECURSIVE Log2Floor(_)
\* floor(log2(m)), m >= 1
Log2Floor(m) == IF m <= 1 THEN 0 ELSE 1 + Log2Floor(m \div 2)

\* the positions (from 0) of the searched list that hold the target
Hits21 == {j \in 0..(Len(sorted_dataset) - 1) : sorted_dataset[j + 1] = target}

\* what holds in every state of a call: the step counter stays within the bound
\* on any list, and the answer on a sorted list is right
C21_Answer ==
    /\ pc \in {"bs_loop", "bs_returned"} =>
          /\ Len(sorted_dataset) = 0 => steps = 0
          /\ Len(sorted_dataset) >= 1 => steps <= Log2Floor(Len(sorted_dataset)) + 1
    /\ (pc = "bs_returned" /\ IsSortedAsc(sorted_dataset)) =>
          /\ Hits21 # {} => result.index \in Hits21
          /\ Hits21 = {} => result.index = -1
          /\ result.steps = steps

\* a pass of the loop that does not return strictly shrinks the window lo..hi
C21_WindowShrinks ==
    (pc = "bs_loop" /\ pc' = "bs_loop") => (hi' - lo' < hi - lo)

\* C21: binary_search_once terminates on every finite list (the window lo..hi
\* strictly shrinks at each step), and on a list sorted ascending it returns an
\* index i with sorted_dataset[i] = target whenever the target is present and -1
\* whenever it is absent, using at most floor(log2(len)) + 1 comparisons (none on
\* the empty list).
C21_BinarySearch ==
    /\ []C21_Answer
    /\ [][C21_WindowShrinks]_vars
    /\ <>(pc = "bs_returned")

\* the search of a sorted list of three with the target at its end has returned
\* after floor(log2(3)) + 1 = 2 comparisons
C21_Witness ==
    /\ pc = "bs_returned"
    /\ Len(sorted_dataset) = 3
    /\ IsSortedAsc(sorted_dataset)
    /\ sorted_dataset[1] # sorted_dataset[3]
    /\ Hits21 = {2}
    /\ result.index = 2
    /\ steps = Log2Floor(3) + 1

====
